---- MODULE Spec2Model ----
(***************************************************************************)
(* Model of convert.py: the conversion of a tree of labelme annotation     *)
(* directories into cropped images plus a labels.txt manifest.             *)
(*                                                                         *)
(* File names are tuples of one-character strings, ordered as Python       *)
(* orders str values (code point by code point, a proper prefix first).    *)
(* Coordinates of annotation points are kept in half pixels, so that the   *)
(* truncation done by int() is visible.                                    *)
(***************************************************************************)
EXTENDS Integers, Sequences, FiniteSets, TLC

(* ------------------------------------------------------------------ *)
(* Bounds of the model                                                  *)
(* ------------------------------------------------------------------ *)

\* largest number of entries in the whole input tree
MaxFiles == 4

\* largest number of shapes over all the annotation files of the input tree
MaxRegions == 2

(* ------------------------------------------------------------------ *)
(* Strings                                                              *)
(* ------------------------------------------------------------------ *)

\* code points of the characters that occur in the modelled names
Ord ==
  ("-" :> 45) @@ ("." :> 46) @@
  ("0" :> 48) @@ ("1" :> 49) @@ ("2" :> 50) @@ ("3" :> 51) @@ ("4" :> 52) @@
  ("5" :> 53) @@ ("6" :> 54) @@ ("7" :> 55) @@ ("8" :> 56) @@ ("9" :> 57) @@
  ("G" :> 71) @@ ("J" :> 74) @@ ("P" :> 80) @@ ("_" :> 95) @@
  ("a" :> 97) @@ ("b" :> 98) @@ ("c" :> 99) @@ ("d" :> 100) @@ ("g" :> 103) @@
  ("h" :> 104) @@ ("i" :> 105) @@ ("j" :> 106) @@ ("n" :> 110) @@
  ("o" :> 111) @@ ("p" :> 112) @@ ("s" :> 115)

\* Python's str < str
StrLess(a, b) ==
  \E i \in 1..Len(b) :
     /\ i <= Len(a) + 1
     /\ \A k \in 1..(i - 1) : a[k] = b[k]
     /\ \/ i = Len(a) + 1
        \/ Ord[a[i]] < Ord[b[i]]

\* str.startswith(".")
StartsWithDot(file) == Len(file) > 0 /\ file[1] = "."

\* index of the last "." of p, 0 when p has none (str.rfind)
LastDot(p) ==
  IF \E i \in 1..Len(p) : p[i] = "."
  THEN CHOOSE i \in 1..Len(p) : p[i] = "." /\ \A k \in (i + 1)..Len(p) : p[k] # "."
  ELSE 0

\* os.path.splitext: split at the last dot, unless only dots come before it
splitext(p) ==
  LET d == LastDot(p) IN
  IF d > 0 /\ \E k \in 1..(d - 1) : p[k] # "."
  THEN [root |-> SubSeq(p, 1, d - 1), ext |-> SubSeq(p, d, Len(p))]
  ELSE [root |-> p, ext |-> << >>]

\* the decimal digits of n >= 0
RECURSIVE Digits(_)
Digits(n) ==
  LET d == <<"0", "1", "2", "3", "4", "5", "6", "7", "8", "9">>[(n % 10) + 1] IN
  IF n < 10 THEN <<d>> ELSE Digits(n \div 10) \o <<d>>

\* format(n, "03d"): at least three digits, padded with zeros on the left
RECURSIVE ZeroPad(_, _)
ZeroPad(s, width) == IF Len(s) >= width THEN s ELSE ZeroPad(<<"0">> \o s, width)

Format03d(n) == ZeroPad(Digits(n), 3)

OutputFileNoSeparator(filename, jj, ext) == filename \o Format03d(jj) \o ext

\* f"{filename}_{jj:03d}{ext}"
OutputFile(filename, jj, ext) == filename \o <<"_">> \o Format03d(jj) \o ext

(* ------------------------------------------------------------------ *)
(* Sorting and searching                                                *)
(* ------------------------------------------------------------------ *)

\* insert x into the sorted sequence s, after the entries that are <= x
RECURSIVE Insert(_, _)
Insert(s, x) ==
  IF s = << >> THEN <<x>>
  ELSE IF StrLess(x, Head(s)) THEN <<x>> \o s
  ELSE <<Head(s)>> \o Insert(Tail(s), x)

RECURSIVE SortedOf(_)
SortedOf(s) == IF s = << >> THEN << >> ELSE Insert(SortedOf(Tail(s)), Head(s))

NoSort(s) == s

\* list.sort() on a list of str
Sort(s) == SortedOf(s)

\* bisect.bisect_left(a, x) between lo and hi (0-based, as in Python)
RECURSIVE BisectLeftLoop(_, _, _, _)
BisectLeftLoop(a, x, lo, hi) ==
  IF lo < hi
  THEN LET mid == (lo + hi) \div 2 IN
       IF StrLess(a[mid + 1], x)
       THEN BisectLeftLoop(a, x, mid + 1, hi)
       ELSE BisectLeftLoop(a, x, lo, mid)
  ELSE lo

\* bisect.bisect(a, x), which is bisect_right, between lo and hi
RECURSIVE BisectLoop(_, _, _, _)
BisectLoop(a, x, lo, hi) ==
  IF lo < hi
  THEN LET mid == (lo + hi) \div 2 IN
       IF StrLess(x, a[mid + 1])
       THEN BisectLoop(a, x, lo, mid)
       ELSE BisectLoop(a, x, mid + 1, hi)
  ELSE lo

BisectLeft(a, x) == BisectLeftLoop(a, x, 0, Len(a))

bisect(a, x) == BisectLoop(a, x, 0, Len(a))

\* the value None
None == <<"None">>

get_json_file_left(json_files, json_count, filename) ==
  LET idx == BisectLeft(json_files, filename) IN
  IF idx < 0 \/ idx >= json_count THEN None ELSE json_files[idx + 1]

\* get_json_file: the entry at the insertion index, None past the end
get_json_file(json_files, json_count, filename) ==
  LET idx == bisect(json_files, filename) IN
  IF idx < 0 \/ idx >= json_count THEN None ELSE json_files[idx + 1]

(* ------------------------------------------------------------------ *)
(* Inputs: the names, the annotation contents, the image size            *)
(* ------------------------------------------------------------------ *)

\* the --group_name values and the sub-directories the input root may hold
GroupNames == {"g1", "g2"}

\* --group_name not given
NoGroup == ""

\* --group_name naming the input root itself
DotGroup == "."

\* the names the first input directory may hold
FileNames ==
  { <<"a", ".", "j", "s", "o", "n">>,
    <<"a", "-", "b", ".", "j", "s", "o", "n">>,
    <<"c", ".", "j", "s", "o", "n">>,
    <<"a", ".", "p", "n", "g">>,
    <<"a", ".", "j", "s", "o", "n", ".", "p", "n", "g">>,
    <<"b", ".", "J", "P", "G">>,
    <<"b", ".", "P", "n", "g">>,
    <<".", "h", "i", "d">> }

\* the names each input directory may hold
GroupEntries ==
  ("g1" :> FileNames) @@
  ("g2" :> { <<"a", ".", "j", "s", "o", "n">>, <<"a", ".", "p", "n", "g">> })

\* the shapes an annotation file may hold: a label and two corner points,
\* the coordinates in half pixels
Shapes ==
  { [label |-> "ab", points |-> << <<3, 2>>, <<7, 5>> >>],
    [label |-> "cd", points |-> << <<2, 2>>, <<8, 4>> >>],
    [label |-> "ef", points |-> << <<2, 7>>, <<4, 2>> >>],
    [label |-> "gh", points |-> << <<-3, 2>>, <<4, 4>> >>],
    [label |-> "ij", points |-> << <<-1, 1>>, <<2, 3>> >>] }

\* the "shapes" lists of at most n shapes
ShapeLists(n) == UNION { [1..k -> Shapes] : k \in 0..n }

\* the number of shapes in the annotation files of the domain D of content
RECURSIVE CountShapes(_, _)
CountShapes(content, D) ==
  IF D = {} THEN 0
  ELSE LET f == CHOOSE x \in D : TRUE IN
       Len(content[f]) + CountShapes(content, D \ {f})

\* img.size of every image: (width, height)
ImgSize == <<4, 3>>

\* all the contents of a tree: at most MaxFiles entries over its directories
RECURSIVE CountEntries(_, _)
CountEntries(dirs, G) ==
  IF G = {} THEN 0
  ELSE LET g == CHOOSE x \in G : TRUE IN
       Cardinality(dirs[g]) + CountEntries(dirs, G \ {g})

Trees ==
  UNION { { dirs \in [G -> SUBSET FileNames] :
              /\ \A g \in G : dirs[g] \subseteq GroupEntries[g]
              /\ CountEntries(dirs, G) <= MaxFiles }
          : G \in SUBSET GroupNames }

\* os.listdir: the entries of a directory in an arbitrary order
ListDir(S) ==
  { order \in [1..Cardinality(S) -> S] :
      \A i, j \in 1..Cardinality(S) : i # j => order[i] # order[j] }

(* ------------------------------------------------------------------ *)
(* get_bbox and get_files                                               *)
(* ------------------------------------------------------------------ *)

Min(a, b) == IF a <= b THEN a ELSE b

Max(a, b) == IF a >= b THEN a ELSE b

\* int() of a coordinate given in half pixels: truncation towards zero
int(x) == IF x >= 0 THEN x \div 2 ELSE -((-x) \div 2)

\* get_bbox: [left, upper, right, lower]
get_bbox(points) ==
  << int(Min(points[1][1], points[2][1])),
     int(Min(points[1][2], points[2][2])),
     int(Max(points[1][1], points[2][1])),
     int(Max(points[1][2], points[2][2])) >>

\* the test of line 109: the box is logged and skipped
BboxRejected(bbox, size) ==
  \/ bbox[1] >= size[1]
  \/ bbox[2] >= size[2]
  \/ bbox[3] >= size[1]
  \/ bbox[4] >= size[2]

DotJson == <<".", "j", "s", "o", "n">>

LowerCaseImageExts ==
  { <<".", "j", "p", "g">>, <<".", "j", "p", "e", "g">>, <<".", "p", "n", "g">> }

\* the extensions get_files takes for images
ImageExts ==
  { <<".", "j", "p", "g">>, <<".", "J", "P", "G">>,
    <<".", "j", "p", "e", "g">>, <<".", "J", "P", "E", "G">>,
    <<".", "p", "n", "g">>, <<".", "P", "N", "G">> }

\* the loop of get_files over the listed entries; invalid is the entry that
\* ended the run, None when there is none
RECURSIVE ScanEntries(_, _)
ScanEntries(entries, acc) ==
  IF entries = << >> THEN acc
  ELSE LET file == Head(entries)
           ext == splitext(file).ext
       IN IF StartsWithDot(file) \/ file = << >>
          THEN ScanEntries(Tail(entries), acc)
          ELSE IF ext = DotJson
          THEN ScanEntries(Tail(entries),
                 [acc EXCEPT !.file_list = Append(@, file),
                             !.json_files = Append(@, file)])
          ELSE IF ext \in ImageExts
          THEN ScanEntries(Tail(entries),
                 [acc EXCEPT !.file_list = Append(@, file),
                             !.image_files = Append(@, file)])
          ELSE [acc EXCEPT !.file_list = Append(@, file), !.invalid = file]

\* get_files on a directory listed in the given order
get_files(order) ==
  LET r == ScanEntries(order, [file_list |-> << >>, json_files |-> << >>,
                               image_files |-> << >>, invalid |-> None])
  IN IF r.invalid # None THEN r
     ELSE [file_list |-> Sort(r.file_list),
           json_files |-> Sort(r.json_files),
           image_files |-> Sort(r.image_files),
           invalid |-> None]

(* ------------------------------------------------------------------ *)
(* State                                                                *)
(* ------------------------------------------------------------------ *)

VARIABLES
  in_root,       \* whether arguments.input_path exists
  in_dirs,       \* its sub-directories: name -> set of entries
  json_content,  \* the "shapes" of the annotation files read so far
  arg_group,     \* arguments.group_name
  out_root,      \* arguments.output_path: "none", "dir", "file" (there before
                 \* the program started) or "created" (made by the program)
  out_dirs,      \* the group directories made under the output path
  error_open,    \* error.txt: "none", "open" or "closed"
  error_log,     \* the lines written to error.txt
  labels_txt,    \* group -> the lines of its labels.txt, once opened
  labels_open,   \* whether run holds an open labels.txt
  crops,         \* group -> (file name -> the crop saved under it)
  groups, gi, group,                      \* the loop of __main__
  json_files, image_files,                \* what get_files returned to run
  ii, image_file, filename, ext, json_file,
  json_data, jj,
  pc,            \* the position in the program
  status,        \* "running", "done", "exit" (sys.exit) or "error" (exception)
  message,       \* what the program ended with
  names          \* the output names built so far (the naming specification)

inputs == <<in_root, in_dirs, arg_group>>

outputs == <<out_root, out_dirs, error_open, error_log, labels_txt, labels_open, crops>>

main_locals == <<groups, gi, group>>

run_locals == <<json_files, image_files, ii, image_file, filename, ext, json_file,
                json_data, jj>>

vars == <<inputs, json_content, outputs, main_locals, run_locals, pc, status,
          message, names>>

\* the locals of run before run has assigned them
RunLocalsUnset ==
  /\ json_files' = << >>
  /\ image_files' = << >>
  /\ ii' = 0
  /\ image_file' = None
  /\ filename' = None
  /\ ext' = None
  /\ json_file' = None
  /\ json_data' = << >>
  /\ jj' = 0

Init ==
  /\ in_root \in BOOLEAN
  /\ in_dirs \in (IF in_root THEN Trees ELSE {<< >>})
  /\ json_content = << >>
  /\ arg_group \in {NoGroup, DotGroup, "g1"}
  /\ out_root \in {"none", "dir", "file"}
  /\ out_dirs = {}
  /\ error_open = "none"
  /\ error_log = << >>
  /\ labels_txt = << >>
  /\ labels_open = FALSE
  /\ crops = [g \in GroupNames |-> << >>]
  /\ groups = << >>
  /\ gi = 0
  /\ group = NoGroup
  /\ json_files = << >>
  /\ image_files = << >>
  /\ ii = 0
  /\ image_file = None
  /\ filename = None
  /\ ext = None
  /\ json_file = None
  /\ json_data = << >>
  /\ jj = 0
  /\ pc = "main"
  /\ status = "running"
  /\ message = ""
  /\ names = {}

\* sys.exit(msg) and an uncaught exception
Exit(msg) == status' = "exit" /\ message' = msg

Raise(exc) == status' = "error" /\ message' = exc

(* ------------------------------------------------------------------ *)
(* __main__                                                             *)
(* ------------------------------------------------------------------ *)

\* lines 199-204: the groups to convert
Main_Groups ==
  /\ status = "running" /\ pc = "main"
  /\ \/ /\ arg_group # NoGroup
        /\ groups' = <<arg_group>>
        /\ pc' = "prepare"
        /\ UNCHANGED <<status, message>>
     \/ /\ arg_group = NoGroup /\ in_root
        /\ \E order \in ListDir(DOMAIN in_dirs) : groups' = order
        /\ pc' = "prepare"
        /\ UNCHANGED <<status, message>>
     \/ /\ arg_group = NoGroup /\ ~in_root
        /\ Raise("FileNotFoundError")
        /\ UNCHANGED <<groups, pc>>
  /\ UNCHANGED <<inputs, json_content, outputs, gi, group, run_locals, names>>

Main_PrepareOutputUnchecked ==
  /\ status = "running" /\ pc = "prepare"
  /\ out_root' = (IF out_root = "none" THEN "created" ELSE out_root)
  /\ error_open' = "open"
  /\ gi' = 1
  /\ pc' = "group_loop"
  /\ UNCHANGED <<status, message>>
  /\ UNCHANGED <<inputs, json_content, out_dirs, error_log, labels_txt, labels_open,
                 crops, groups, group, run_locals, names>>

\* lines 206-212: refuse an existing output directory, else make it and open
\* error.txt in it
Main_PrepareOutput ==
  /\ status = "running" /\ pc = "prepare"
  /\ \/ /\ out_root = "dir"
        /\ Exit("directory is already exists")
        /\ UNCHANGED <<out_root, error_open, gi, pc>>
     \/ /\ out_root = "file"
        /\ Raise("FileExistsError")
        /\ UNCHANGED <<out_root, error_open, gi, pc>>
     \/ /\ out_root = "none"
        /\ out_root' = "created"
        /\ error_open' = "open"
        /\ gi' = 1
        /\ pc' = "group_loop"
        /\ UNCHANGED <<status, message>>
  /\ UNCHANGED <<inputs, json_content, out_dirs, error_log, labels_txt, labels_open,
                 crops, groups, group, run_locals, names>>

\* lines 214-224: the head of a group, up to the call of run (whose locals
\* start unset)
Main_Group ==
  /\ status = "running" /\ pc = "group_loop" /\ gi <= Len(groups)
  /\ error_log' = error_log \o << [kind |-> "header", group |-> groups[gi]],
                                  [kind |-> "dashes"] >>
  /\ group' = groups[gi]
  /\ RunLocalsUnset
  /\ pc' = "run"
  /\ UNCHANGED <<inputs, json_content, out_root, out_dirs, error_open, labels_txt,
                 labels_open, crops, groups, gi, status, message, names>>

\* line 228: the loop is over
Main_Close ==
  /\ status = "running" /\ pc = "group_loop" /\ gi > Len(groups)
  /\ error_open' = "closed"
  /\ status' = "done"
  /\ UNCHANGED <<inputs, json_content, out_root, out_dirs, error_log, labels_txt,
                 labels_open, crops, main_locals, run_locals, pc, message, names>>

(* ------------------------------------------------------------------ *)
(* run                                                                  *)
(* ------------------------------------------------------------------ *)

\* os.path.exists(input_path) and os.path.isdir(output_path) for a group
InputExists(g) == in_root /\ (g = DotGroup \/ g \in DOMAIN in_dirs)

OutputIsDir(g) == g = DotGroup \/ g \in out_dirs

\* lines 70-78: the input must exist, the output must not
Run_CheckPaths ==
  /\ status = "running" /\ pc = "run"
  /\ \/ /\ ~InputExists(group)
        /\ Exit("Can't find directory")
        /\ UNCHANGED <<out_dirs, pc>>
     \/ /\ InputExists(group) /\ OutputIsDir(group)
        /\ Exit("directory is already exists")
        /\ UNCHANGED <<out_dirs, pc>>
     \/ /\ InputExists(group) /\ ~OutputIsDir(group)
        /\ out_dirs' = out_dirs \cup {group}
        /\ pc' = "get_files"
        /\ UNCHANGED <<status, message>>
  /\ UNCHANGED <<inputs, json_content, out_root, error_open, error_log, labels_txt,
                 labels_open, crops, main_locals, run_locals, names>>

\* lines 80-88: list the directory, compare the counts, open labels.txt
Run_GetFiles ==
  /\ status = "running" /\ pc = "get_files"
  /\ \E order \in ListDir(in_dirs[group]) :
       LET r == get_files(order) IN
       \/ /\ r.invalid # None
          /\ Exit("Invalid file")
          /\ UNCHANGED <<json_files, image_files, labels_txt, labels_open, ii, pc>>
       \/ /\ r.invalid = None
          /\ Len(r.json_files) # Len(r.image_files)
          /\ json_files' = r.json_files
          /\ image_files' = r.image_files
          /\ Exit("The number of json files and image files does not match exactly")
          /\ UNCHANGED <<labels_txt, labels_open, ii, pc>>
       \/ /\ r.invalid = None
          /\ Len(r.json_files) = Len(r.image_files)
          /\ json_files' = r.json_files
          /\ image_files' = r.image_files
          /\ labels_txt' = (group :> << >>) @@ labels_txt
          /\ labels_open' = TRUE
          /\ ii' = 0
          /\ pc' = "image_loop"
          /\ UNCHANGED <<status, message>>
  /\ UNCHANGED <<inputs, json_content, out_root, out_dirs, error_open, error_log,
                 crops, main_locals, image_file, filename, ext, json_file,
                 json_data, jj, names>>

\* lines 89-104: the next image, its annotation file, and the loading of both
Run_Image ==
  /\ status = "running" /\ pc = "image_loop" /\ ii < Len(image_files)
  /\ LET image == image_files[ii + 1]
         parts == splitext(image)
         found == get_json_file(json_files, Len(json_files), parts.root)
     IN /\ image_file' = image
        /\ filename' = parts.root
        /\ ext' = parts.ext
        /\ json_file' = found
        /\ \/ /\ found = None
              /\ ii' = ii + 1
              /\ UNCHANGED <<json_content, json_data, jj, pc>>
           \/ /\ found # None
              /\ <<group, found>> \in DOMAIN json_content
              /\ json_data' = json_content[<<group, found>>]
              /\ jj' = 0
              /\ pc' = "shape_loop"
              /\ UNCHANGED <<json_content, ii>>
           \/ /\ found # None
              /\ <<group, found>> \notin DOMAIN json_content
              /\ \E shapes \in ShapeLists(MaxRegions
                                          - CountShapes(json_content, DOMAIN json_content)) :
                   /\ json_data' = shapes
                   /\ json_content' = (<<group, found>> :> shapes) @@ json_content
              /\ jj' = 0
              /\ pc' = "shape_loop"
              /\ UNCHANGED ii
  /\ UNCHANGED <<inputs, outputs, main_locals, json_files, image_files, status,
                 message, names>>

\* lines 105-118: one shape of the annotation file
Run_Shape ==
  /\ status = "running" /\ pc = "shape_loop" /\ jj < Len(json_data)
  /\ LET shape == json_data[jj + 1]
         label == shape.label
         bbox == get_bbox(shape.points)
         output_file == OutputFile(filename, jj, ext)
     IN \/ /\ BboxRejected(bbox, ImgSize)
           /\ error_log' = Append(error_log, [kind |-> "bbox", image_file |-> image_file,
                                              label |-> label, bbox |-> bbox])
           /\ UNCHANGED <<crops, labels_txt>>
        \/ /\ ~BboxRejected(bbox, ImgSize)
           /\ crops' = [crops EXCEPT ![group] =
                          (output_file :> [image_file |-> image_file,
                                           json_file |-> json_file,
                                           index |-> jj, bbox |-> bbox]) @@ @]
           /\ labels_txt' = [labels_txt EXCEPT ![group] =
                               Append(@, [file |-> output_file, label |-> label])]
           /\ UNCHANGED error_log
  /\ jj' = jj + 1
  /\ UNCHANGED <<inputs, json_content, out_root, out_dirs, error_open, labels_open,
                 main_locals, json_files, image_files, ii, image_file, filename, ext,
                 json_file, json_data, pc, status, message, names>>

\* the end of the loop of line 105: on to the next image
Run_ImageDone ==
  /\ status = "running" /\ pc = "shape_loop" /\ jj = Len(json_data)
  /\ ii' = ii + 1
  /\ pc' = "image_loop"
  /\ UNCHANGED <<inputs, json_content, outputs, main_locals, json_files, image_files,
                 image_file, filename, ext, json_file, json_data, jj, status,
                 message, names>>

\* lines 120-123 and 226: close labels.txt, return (the locals of run are
\* gone), end the group's log
Run_Finish ==
  /\ status = "running" /\ pc = "image_loop" /\ ii = Len(image_files)
  /\ labels_open' = FALSE
  /\ error_log' = Append(error_log, [kind |-> "dashes"])
  /\ RunLocalsUnset
  /\ gi' = gi + 1
  /\ pc' = "group_loop"
  /\ UNCHANGED <<inputs, json_content, out_root, out_dirs, error_open, labels_txt,
                 crops, groups, group, status, message, names>>

Next ==
  \/ Main_Groups
  \/ Main_PrepareOutput
  \/ Main_Group
  \/ Main_Close
  \/ Run_CheckPaths
  \/ Run_GetFiles
  \/ Run_Image
  \/ Run_Shape
  \/ Run_ImageDone
  \/ Run_Finish

Spec == Init /\ [][Next]_vars

(* ------------------------------------------------------------------ *)
(* The naming of the crops, on its own                                  *)
(* ------------------------------------------------------------------ *)

\* number of output names compared with each other
MaxNames == 2

\* image files of one directory
NameImages ==
  { <<"a", ".", "p", "n", "g">>,
    <<"a", ".", "P", "N", "G">>,
    <<"a", "1", ".", "p", "n", "g">>,
    <<"a", "_", "1", ".", "p", "n", "g">>,
    <<"a", "_", "0", "0", "0", ".", "p", "n", "g">>,
    <<"a", ".", "j", "s", "o", "n", ".", "p", "n", "g">> }

\* positions of a shape in its annotation file
NameIndexes == {0, 1, 10, 100, 999, 1000, 1001, 10000}

\* line 93 and line 114, for the shape at position index of image
OutputName(image, index) ==
  LET parts == splitext(image) IN OutputFile(parts.root, index, parts.ext)

InitNames ==
  /\ Init
  /\ ~in_root
  /\ arg_group = NoGroup
  /\ out_root = "none"

\* one more crop of the run gets its name
NameCrop ==
  /\ Cardinality(names) < MaxNames
  /\ \E image \in NameImages, index \in NameIndexes :
       /\ \A r \in names : r.image_file # image \/ r.index # index
       /\ names' = names \cup {[image_file |-> image, index |-> index,
                                file |-> OutputName(image, index)]}
  /\ UNCHANGED <<inputs, json_content, outputs, main_locals, run_locals, pc, status,
                 message>>

NextNames == NameCrop

SpecNames == InitNames /\ [][NextNames]_vars

(* ------------------------------------------------------------------ *)
(* Notions of the specification                                         *)
(* ------------------------------------------------------------------ *)

\* a bounding box all of whose coordinates lie in [0, width) and [0, height)
BoxValid(bbox, size) ==
  /\ 0 <= bbox[1] /\ bbox[1] < size[1]
  /\ 0 <= bbox[3] /\ bbox[3] < size[1]
  /\ 0 <= bbox[2] /\ bbox[2] < size[2]
  /\ 0 <= bbox[4] /\ bbox[4] < size[2]

\* the positions (from 1) of the shapes of the loaded annotation whose box is valid
ValidShapes == { i \in 1..Len(json_data) : BoxValid(get_bbox(json_data[i].points), ImgSize) }

\* the positions of the shapes of the loaded annotation that pass the test of line 109
AcceptedShapes ==
  { i \in 1..Len(json_data) : ~BboxRejected(get_bbox(json_data[i].points), ImgSize) }

\* the crops saved for an image of a group, and the manifest lines naming them
CropsOf(g, image) == { f \in DOMAIN crops[g] : crops[g][f].image_file = image }

LinesOf(g, files) ==
  IF g \in DOMAIN labels_txt
  THEN { k \in 1..Len(labels_txt[g]) : labels_txt[g][k].file \in files }
  ELSE {}

\* the names the shapes of the loaded annotation get
ShapeNames == { OutputFile(filename, i - 1, ext) : i \in 1..Len(json_data) }

\* the shapes of the current image have all been handled
ImageHandled == status = "running" /\ pc = "shape_loop" /\ jj = Len(json_data)

\* seq lists the set S in strictly increasing order
IsSortedListOf(seq, S) ==
  /\ Len(seq) = Cardinality(S)
  /\ { seq[k] : k \in 1..Len(seq) } = S
  /\ \A k \in 1..(Len(seq) - 1) : StrLess(seq[k], seq[k + 1])

ToLower(c) ==
  CASE c = "J" -> "j" [] c = "P" -> "p" [] c = "G" -> "g" [] c = "E" -> "e"
    [] c = "N" -> "n" [] OTHER -> c

ToUpper(c) ==
  CASE c = "j" -> "J" [] c = "p" -> "P" [] c = "g" -> "G" [] c = "e" -> "E"
    [] c = "n" -> "N" [] OTHER -> c

LowerStr(s) == [k \in 1..Len(s) |-> ToLower(s[k])]

UpperStr(s) == [k \in 1..Len(s) |-> ToUpper(s[k])]

\* get_files has run on the directory of the current group
Scanned ==
  \/ pc \in {"image_loop", "shape_loop"}
  \/ status = "exit" /\ pc = "get_files"

\* the entries of the current directory that do not start with a dot
Entries == { f \in in_dirs[group] : ~StartsWithDot(f) }

\* the resolver has been asked for the annotation of image_file
Resolved == pc \in {"image_loop", "shape_loop"} /\ image_file # None

(* ------------------------------------------------------------------ *)
(* The claims                                                           *)
(* ------------------------------------------------------------------ *)

\* C1: once the shapes of a paired image have all been handled, the image has
\* exactly N crops and N manifest lines, N the number of its shapes with a valid
\* (in-bounds) box, and the shape at position i has the crop and the line named
\* {base}_{i:03d}{ext}.
C1_CountAndNames ==
  ImageHandled =>
    /\ Cardinality(CropsOf(group, image_file)) = Cardinality(ValidShapes)
    /\ Cardinality(LinesOf(group, ShapeNames)) = Cardinality(ValidShapes)
    /\ \A i \in ValidShapes :
         /\ OutputFile(filename, i - 1, ext) \in CropsOf(group, image_file)
         /\ \E k \in LinesOf(group, ShapeNames) :
              labels_txt[group][k] = [file |-> OutputFile(filename, i - 1, ext),
                                      label |-> json_data[i].label]

\* The count and the names of C1 with "in-bounds" read as the test of line 109
\* (no coordinate reaches the image's width or height).
CountAndNamesOfAccepted ==
  ImageHandled =>
    /\ Cardinality(CropsOf(group, image_file)) = Cardinality(AcceptedShapes)
    /\ Cardinality(LinesOf(group, ShapeNames)) = Cardinality(AcceptedShapes)
    /\ \A i \in AcceptedShapes :
         /\ OutputFile(filename, i - 1, ext) \in CropsOf(group, image_file)
         /\ crops[group][OutputFile(filename, i - 1, ext)].index = i - 1
         /\ \E k \in LinesOf(group, ShapeNames) :
              labels_txt[group][k] = [file |-> OutputFile(filename, i - 1, ext),
                                      label |-> json_data[i].label]

\* C2: every crop saved, and every manifest line written, is of a shape whose
\* box has all four coordinates in range, 0 <= left, right < width and
\* 0 <= upper, lower < height.
C2_OnlyValidBoxesEmitted ==
  \A g \in GroupNames :
    /\ \A f \in DOMAIN crops[g] : BoxValid(crops[g][f].bbox, ImgSize)
    /\ g \in DOMAIN labels_txt =>
         \A k \in 1..Len(labels_txt[g]) :
           /\ labels_txt[g][k].file \in DOMAIN crops[g]
           /\ BoxValid(crops[g][labels_txt[g][k].file].bbox, ImgSize)

\* C3: a shape whose box has a coordinate out of range, once handled, has no
\* crop and no manifest line, has an error-log line with the image file name
\* and the label, and the run goes on.
C3_OutOfRangeSkippedAndLogged ==
  (pc = "shape_loop") =>
    \A i \in 1..jj :
      ~BoxValid(get_bbox(json_data[i].points), ImgSize) =>
        /\ OutputFile(filename, i - 1, ext) \notin DOMAIN crops[group]
        /\ LinesOf(group, {OutputFile(filename, i - 1, ext)}) = {}
        /\ \E k \in 1..Len(error_log) :
             /\ error_log[k].kind = "bbox"
             /\ error_log[k].image_file = image_file
             /\ error_log[k].label = json_data[i].label
        /\ status = "running"

\* C4: every crop was cut with the shapes of the annotation file that has the
\* base name of the image: {name}.{ext} with {name}.json.
C4_PairedBySameBaseName ==
  \A g \in GroupNames :
    \A f \in DOMAIN crops[g] :
      crops[g][f].json_file = splitext(crops[g][f].image_file).root \o DotJson

\* C5: when the run ends on differing counts of images and annotations, no
\* output directory, error log, manifest or crop has been made for it.
C5_MismatchLeavesNoOutput ==
  (status = "exit"
     /\ message = "The number of json files and image files does not match exactly") =>
    /\ out_root # "created"
    /\ group \notin out_dirs
    /\ error_open = "none"
    /\ group \notin DOMAIN labels_txt
    /\ crops[group] = << >>

\* C6: when the output path is there before the program starts, the program
\* never gets past the check of the output path, ends with a message, and
\* makes nothing in the output path: no directory, no error log, no manifest,
\* no crop.
C6_ExistingOutputUntouched ==
  (out_root \in {"dir", "file"}) =>
    /\ pc \in {"main", "prepare"}
    /\ status \in {"running", "exit", "error"}
    /\ (status # "running" => message # "")
    /\ (pc = "prepare" /\ status # "running" =>
          message \in {"directory is already exists", "FileExistsError"})
    /\ out_dirs = {}
    /\ error_open = "none"
    /\ error_log = << >>
    /\ labels_txt = << >>
    /\ labels_open = FALSE
    /\ \A g \in GroupNames : crops[g] = << >>

\* an existing output directory has been refused
C6_Witness ==
  /\ out_root = "dir"
  /\ pc = "prepare"
  /\ status = "exit"
  /\ message = "directory is already exists"

\* C7: when the run ends because an input directory is missing, no output
\* directory and no output file has been made.
C7_MissingInputBeforeOutput ==
  (status # "running" /\ message \in {"Can't find directory", "FileNotFoundError"}) =>
    /\ out_root # "created"
    /\ out_dirs = {}
    /\ error_open = "none"

\* C8 as stated: an entry is an image when its extension is jpg, jpeg or png in
\* any mix of upper and lower case.
C8_CaseInsensitiveScan ==
  LET isJson(f) == splitext(f).ext = DotJson
      isImage(f) == LowerStr(splitext(f).ext) \in LowerCaseImageExts
      fatal == \E f \in Entries : ~isJson(f) /\ ~isImage(f)
  IN Scanned =>
       /\ (status = "exit" /\ message = "Invalid file") <=> fatal
       /\ ~fatal =>
            /\ IsSortedListOf(json_files, { f \in Entries : isJson(f) })
            /\ IsSortedListOf(image_files, { f \in Entries : isImage(f) })

\* C8 as amended: entries starting with a dot are ignored; an entry with the
\* extension .json is an annotation file; an entry whose extension is jpg, jpeg
\* or png, all in lower case or all in upper case, is an image file; any other
\* entry (a mixed-case extension such as .Png too) ends the run with "Invalid
\* file"; the two lists are in lexicographic order.
C8_ScanClassifiesAndSorts ==
  LET isJson(f) == splitext(f).ext = DotJson
      isImage(f) == \E e \in LowerCaseImageExts :
                      splitext(f).ext = e \/ splitext(f).ext = UpperStr(e)
      fatal == \E f \in Entries : ~isJson(f) /\ ~isImage(f)
  IN Scanned =>
       /\ (status = "exit" /\ message = "Invalid file") <=> fatal
       /\ ~fatal =>
            /\ IsSortedListOf(json_files, { f \in Entries : isJson(f) })
            /\ IsSortedListOf(image_files, { f \in Entries : isImage(f) })

\* a directory with two images and two annotation files, and a dot file
\* beside them or not, has been scanned
C8_Witness ==
  /\ status = "running"
  /\ pc = "image_loop"
  /\ Len(image_files) = 2
  /\ Len(json_files) = 2
  /\ \E k \in 1..2 : splitext(image_files[k]).ext = <<".", "J", "P", "G">>

\* C9 as stated: the resolver returns the first annotation name that sorts at or
\* after the base name of the image, and None when there is none.
C9_FirstAtOrAfter ==
  LET after == { k \in 1..Len(json_files) : ~StrLess(json_files[k], filename) } IN
  Resolved =>
    IF after = {} THEN json_file = None
    ELSE json_file = json_files[CHOOSE k \in after : \A m \in after : k <= m]

\* C9 as amended: the resolver returns the first annotation file name that sorts
\* strictly after the base name of the image, and None exactly when no name
\* sorts after it; an image without a match is skipped: it has no crop and no
\* manifest line, the run goes on and the loop is past the image.
C9_FirstStrictlyAfter ==
  LET after == { k \in 1..Len(json_files) : StrLess(filename, json_files[k]) } IN
  Resolved =>
    /\ IF after = {} THEN json_file = None
       ELSE json_file = json_files[CHOOSE k \in after : \A m \in after : k <= m]
    /\ json_file = None =>
         /\ status = "running"
         /\ pc = "image_loop"
         /\ ii >= 1 /\ image_files[ii] = image_file
         /\ CropsOf(group, image_file) = {}
         /\ LinesOf(group, { OutputFile(filename, i, ext) : i \in 0..MaxRegions }) = {}

\* the first image of a directory had no match and the second one is being
\* cropped
C9_Witness ==
  /\ pc = "shape_loop"
  /\ ii = 1
  /\ jj >= 1
  /\ get_json_file(json_files, Len(json_files), splitext(image_files[1]).root) = None
  /\ CropsOf(group, image_files[1]) = {}

\* C10: the names built for distinct (image file, shape position) pairs of a
\* run are distinct, positions of 1000 and more included, and none is the name
\* of the manifest.
C10_OutputNamesDistinct ==
  \A r \in names :
    /\ r.file # <<"l", "a", "b", "e", "l", "s", ".", "t", "x", "t">>
    /\ \A q \in names :
         r.file = q.file => (r.image_file = q.image_file /\ r.index = q.index)

\* two names have been built, one of them for a position of 1000 or more
C10_Witness ==
  /\ Cardinality(names) = 2
  /\ \E r \in names : r.index >= 1000
  /\ \E r \in names : r.index < 1000

====
